---------------------------- MODULE Spec2Model ----------------------------
(***************************************************************************)
(* The conversation controller of src/App.tsx: the App component's state   *)
(* (messages, isLoading, error, chatSessionRef), the mount effect          *)
(* initializeChat, the send handler handleSendMessage with its awaited     *)
(* remote call, and ChatInput.handleSubmit which feeds it.                 *)
(*                                                                         *)
(* Strings are sequences of symbols.  A symbol is one character of a       *)
(* user-supplied or remote-supplied text, or one fixed literal of the      *)
(* source kept whole.  React state read inside a handler is the value      *)
(* captured by the closure of the last render; the hook state itself is    *)
(* the value after all queued updates.                                     *)
(***************************************************************************)
EXTENDS Naturals, Sequences, FiniteSets, TLC

VARIABLES
    API_KEY,            \* App.tsx:32  import.meta.env.VITE_GEMINI_API_KEY is truthy
    initPc,             \* App.tsx:38-76  initializeChat: not yet run, or how it ended
    chatSessionRef,     \* App.tsx:28  chatSessionRef.current is a session (TRUE) or null
    messages,           \* App.tsx:22  useState<Message[]>
    isLoading,          \* App.tsx:23  useState<boolean>
    error,              \* App.tsx:24  useState<string | null>
    renderedIsLoading,  \* App.tsx:91  isLoading as captured by the last render's closures
    renderedSession,    \* App.tsx:159  chatSessionRef.current as read by the last render
    pending,            \* App.tsx:100  sendMessage calls awaiting settlement: their arguments
    outbound,           \* App.tsx:100  number of sendMessage calls issued on the session
    clock               \* App.tsx:96  Date.now()

vars == <<API_KEY, initPc, chatSessionRef, messages, isLoading, error,
          renderedIsLoading, renderedSession, pending, outbound, clock>>

---------------------------------------------------------------------------
(* Bounds *)

MaxSends == 2

MaxClock == 1

---------------------------------------------------------------------------
(* Texts *)

Whitespace == {" "}

\* The texts the input field can hold and the remote call can return: empty,
\* whitespace only, and padded.
Texts == { <<>>, <<" ">>, <<" ", "a">> }

\* The texts handleSendMessage can be called with.
SendTexts == { <<>>, <<" ">>, <<"a">> }

\* The messages of the Error objects the SDK can throw.
ErrorTexts == { <<"timeout">> }

RECURSIVE trimStart(_)
trimStart(s) ==
    IF s # <<>> /\ Head(s) \in Whitespace THEN trimStart(Tail(s)) ELSE s

RECURSIVE trimEnd(_)
trimEnd(s) ==
    IF s # <<>> /\ s[Len(s)] \in Whitespace
    THEN trimEnd(SubSeq(s, 1, Len(s) - 1))
    ELSE s

\* String.prototype.trim
trim(s) == trimEnd(trimStart(s))

\* JavaScript truthiness of a string
Truthy(s) == s # <<>>

---------------------------------------------------------------------------
(* Types and literals *)

USER == "user"

MODEL == "model"

Null == [kind |-> "null"]

Str(s) == [kind |-> "string", text |-> s]

\* Thrown values: an Error carrying a message, or a value that is no Error.
ErrorValue(m) == [kind |-> "Error", message |-> m]

NonErrorValue == [kind |-> "other"]

Thrown == { ErrorValue(m) : m \in ErrorTexts } \cup { NonErrorValue }

\* How an awaited sendMessage (with result.response.text()) can end.
Resolved(t) == [kind |-> "text", text |-> t]

Outcomes == { Resolved(t) : t \in Texts } \cup Thrown

InitialMessage ==
    [ id      |-> <<"initial-message">>,
      role    |-> MODEL,
      content |-> <<"Hello! I'm an assistant powered by Gemini. How can I help you today?">> ]

MissingKeyText ==
    <<"API Key is missing. Make sure you have set the VITE_GEMINI_API_KEY environment variable in your .env file or deployment service (like Netlify).">>

InitUnknownText == <<"An unknown error occurred during initialization.">>

InitFailedText(errorMessage) ==
    <<"Failed to initialize the chatbot. Please check your API key and setup.", "\n\nError: ">>
        \o errorMessage

EmptyResponseText == <<"Received an empty response from the API.">>

UnknownErrorText == <<"An unknown error occurred.">>

ApologyText == <<"Sorry, I ran into a problem. Please try again.">>

ErrorContent_NoDetail(errorMessage) == ApologyText

ErrorContent(errorMessage) ==
    ApologyText \o <<"\n\n*Error: ">> \o errorMessage \o <<"*">>

BannerText(errorMessage) == <<"API Error: ">> \o errorMessage

\* e instanceof Error ? e.message : fallback
ErrorMessageOf(e, fallback) ==
    IF e.kind = "Error" THEN e.message ELSE fallback

Message(prefix, role, content) ==
    [ id |-> <<prefix, clock>>, role |-> role, content |-> content ]

---------------------------------------------------------------------------
(* Construction: the first render has run, the mount effect has not *)

Init ==
    /\ API_KEY \in BOOLEAN
    /\ initPc = "mounted"
    /\ chatSessionRef = FALSE
    /\ messages = <<>>
    /\ isLoading = TRUE
    /\ error = Null
    /\ renderedIsLoading = TRUE
    /\ renderedSession = FALSE
    /\ pending = <<>>
    /\ outbound = 0
    /\ clock = 0

---------------------------------------------------------------------------
(* The mount effect.  initializeChat awaits nothing, so it runs to its end *)
(* inside the effect.                                                      *)

initializeChat ==
    /\ initPc = "mounted"
    /\ isLoading' = FALSE
    /\ IF ~API_KEY
       THEN /\ error' = Str(MissingKeyText)
            /\ initPc' = "missing-key"
            /\ UNCHANGED <<chatSessionRef, messages>>
       ELSE \/ /\ chatSessionRef' = TRUE
               /\ messages' = <<InitialMessage>>
               /\ error' = Null
               /\ initPc' = "ok"
            \/ \E e \in Thrown :
                 /\ error' = Str(InitFailedText(ErrorMessageOf(e, InitUnknownText)))
                 /\ initPc' = "threw"
                 /\ UNCHANGED <<chatSessionRef, messages>>
    /\ UNCHANGED <<API_KEY, renderedIsLoading, renderedSession, pending, outbound, clock>>

---------------------------------------------------------------------------
(* React re-renders App: the handlers and props are rebuilt from the       *)
(* current hook state and the current value of the ref.                    *)

Render ==
    /\ <<renderedIsLoading, renderedSession>> # <<isLoading, chatSessionRef>>
    /\ renderedIsLoading' = isLoading
    /\ renderedSession' = chatSessionRef
    /\ UNCHANGED <<API_KEY, initPc, chatSessionRef, messages, isLoading, error,
                   pending, outbound, clock>>

\* Date.now() moves on
Tick ==
    /\ clock < MaxClock
    /\ clock' = clock + 1
    /\ UNCHANGED <<API_KEY, initPc, chatSessionRef, messages, isLoading, error,
                   renderedIsLoading, renderedSession, pending, outbound>>

---------------------------------------------------------------------------
(* handleSendMessage up to its await *)

SendGuard_LoadingOnly == renderedIsLoading

\* if (isLoading || !chatSessionRef.current) return;
SendGuard == renderedIsLoading \/ ~chatSessionRef

handleSendMessage(userInput) ==
    IF SendGuard
    THEN UNCHANGED vars
    ELSE /\ outbound < MaxSends
         /\ isLoading' = TRUE
         /\ error' = Null
         /\ messages' = Append(messages, Message("user-", USER, userInput))
         /\ pending' = Append(pending, userInput)
         /\ outbound' = outbound + 1
         /\ UNCHANGED <<API_KEY, initPc, chatSessionRef, renderedIsLoading,
                        renderedSession, clock>>

\* The isLoading prop App hands to ChatInput; it disables the text field.
InputDisabled == renderedIsLoading \/ ~renderedSession

\* ChatInput.handleSubmit, with the text field holding input
handleSubmit(input) ==
    /\ ~InputDisabled
    /\ IF Truthy(trim(input))
       THEN handleSendMessage(trim(input))
       ELSE UNCHANGED vars

---------------------------------------------------------------------------
(* handleSendMessage from its await on: try, catch, finally *)

IsEmptyResponse_Never(responseContent) == FALSE

\* if (!responseContent)
IsEmptyResponse(responseContent) == ~Truthy(responseContent)

\* The value the try block throws for this outcome, or Null when it does not throw.
ThrownBy(outcome) ==
    IF outcome.kind = "text"
    THEN IF IsEmptyResponse(outcome.text) THEN ErrorValue(EmptyResponseText) ELSE Null
    ELSE outcome

IsLoadingAfterSettle_Kept == isLoading

\* finally { setIsLoading(false) }
IsLoadingAfterSettle == FALSE

RemoveAt(s, i) == SubSeq(s, 1, i - 1) \o SubSeq(s, i + 1, Len(s))

sendMessageSettled(i, outcome) ==
    /\ i \in 1 .. Len(pending)
    /\ pending' = RemoveAt(pending, i)
    /\ LET e == ThrownBy(outcome) IN
         IF e = Null
         THEN /\ messages' = Append(messages, Message("model-", MODEL, trim(outcome.text)))
              /\ error' = error
         ELSE LET errorMessage == ErrorMessageOf(e, UnknownErrorText) IN
              /\ messages' = Append(messages, Message("error-", MODEL, ErrorContent(errorMessage)))
              /\ error' = Str(BannerText(errorMessage))
    /\ isLoading' = IsLoadingAfterSettle
    /\ UNCHANGED <<API_KEY, initPc, chatSessionRef, renderedIsLoading,
                   renderedSession, outbound, clock>>

---------------------------------------------------------------------------

Submit == \E input \in Texts : handleSubmit(input)

Send == \E userInput \in SendTexts : handleSendMessage(userInput)

Settle == \E i \in 1 .. Len(pending), outcome \in Outcomes : sendMessageSettled(i, outcome)

Next ==
    \/ initializeChat
    \/ Render
    \/ Tick
    \/ Submit
    \/ Send
    \/ Settle

Spec == Init /\ [][Next]_vars

\* The effect runs after mount, React renders what it has scheduled, and every
\* remote call settles.
LiveSpec ==
    /\ Spec
    /\ WF_vars(initializeChat)
    /\ WF_vars(Render)
    /\ WF_vars(Settle)

---------------------------------------------------------------------------
(* Properties *)

LastMessage == messages[Len(messages)]

\* sub occurs in s as a contiguous substring
Contains(s, sub) ==
    \E i \in 0 .. Len(s) :
        /\ i + Len(sub) <= Len(s)
        /\ SubSeq(s, i + 1, i + Len(sub)) = sub

IsBlank(text) == trim(text) = <<>>

Failed(outcome) == outcome.kind # "text" \/ outcome.text = <<>>

\* The error text an observer of the remote call sees for a failed outcome.
RawErrorText(outcome) ==
    CASE outcome.kind = "text"  -> EmptyResponseText
      [] outcome.kind = "Error" -> outcome.message
      [] OTHER                  -> UnknownErrorText

InitFailed == initPc \in {"missing-key", "threw"}

\* C1 (busy exclusion): a send issued while an exchange is in flight changes
\* neither the Conversation nor the set of outbound exchanges, and at most one
\* exchange is ever in flight.
C1_BusyExclusion ==
    /\ [](Len(pending) <= 1)
    /\ [][\A userInput \in SendTexts :
            (pending # <<>> /\ handleSendMessage(userInput))
                => UNCHANGED <<messages, pending, outbound>>]_vars

\* C2 (fatal init): when the credential is absent or construction throws, the
\* session handle is absent, the banner error is non-empty, the busy flag is
\* false and the Conversation is empty, and from then on nothing a send does
\* changes the Conversation, the banner error or the busy flag or issues an
\* exchange.
C2_FatalInit ==
    /\ [](InitFailed =>
            /\ ~chatSessionRef
            /\ error.kind = "string" /\ error.text # <<>>
            /\ ~isLoading
            /\ messages = <<>>
            /\ pending = <<>>
            /\ outbound = 0)
    /\ [][InitFailed => UNCHANGED <<messages, error, isLoading, pending, outbound>>]_vars

\* Construction threw, and the view has re-rendered with the busy flag false, so
\* that the guard of a send rests on the absent session alone.
C2_Witness ==
    /\ initPc = "threw"
    /\ ~isLoading
    /\ ~renderedIsLoading
    /\ ~chatSessionRef

\* C3 (failure visibility): when the remote exchange of an accepted send fails
\* (it throws, or the response is empty), exactly one ASSISTANT Turn is appended,
\* its text contains the apology phrase and the raw error message, and the banner
\* error is set to a non-empty value; at rest the last Turn is never a USER Turn.
C3_FailureVisibility ==
    /\ [](~isLoading /\ messages # <<>> => LastMessage.role # USER)
    /\ [][\A i \in 1 .. Len(pending), outcome \in Outcomes :
            (Len(pending') < Len(pending) /\ Failed(outcome) /\ sendMessageSettled(i, outcome)) =>
                /\ Len(messages') = Len(messages) + 1
                /\ SubSeq(messages', 1, Len(messages)) = messages
                /\ LastMessage'.role = MODEL
                /\ Contains(LastMessage'.content, ApologyText)
                /\ Contains(LastMessage'.content, RawErrorText(outcome))
                /\ error'.kind = "string" /\ error'.text # <<>>]_vars

C3_Witness ==
    /\ Len(messages) >= 3
    /\ messages[Len(messages) - 1].role = USER
    /\ LastMessage.role = MODEL
    /\ Contains(LastMessage.content, <<"timeout">>)
    /\ ~isLoading
    /\ error # Null

\* C4 (empty-response handling): when the remote call returns the empty string,
\* the Turn appended for it is the apology Turn carrying the empty-response error
\* text, not an ASSISTANT Turn with empty text.
C4_EmptyResponse ==
    [][\A i \in 1 .. Len(pending) :
         sendMessageSettled(i, Resolved(<<>>)) =>
            /\ LastMessage'.role = MODEL
            /\ LastMessage'.id[1] = "error-"
            /\ LastMessage'.content # <<>>
            /\ Contains(LastMessage'.content, ApologyText)
            /\ Contains(LastMessage'.content, EmptyResponseText)]_vars

C4_Witness ==
    /\ messages # <<>>
    /\ LastMessage.id[1] = "error-"
    /\ Contains(LastMessage.content, EmptyResponseText)

\* C5 (trim and reject blank): a send whose text is empty or only whitespace is a
\* no-op in every state, for handleSendMessage itself: Conversation, busy flag and
\* outbound exchanges are unchanged.
C5_RejectBlank ==
    [][\A userInput \in SendTexts :
         (IsBlank(userInput) /\ handleSendMessage(userInput))
            => UNCHANGED <<messages, isLoading, pending, outbound>>]_vars

\* C6 (ordering): after a successful initialize the Conversation is the greeting
\* followed by Turns that strictly alternate USER, ASSISTANT, and Turns already
\* appended are never removed, reordered or changed.
C6_Ordering ==
    /\ [](initPc = "ok" =>
            /\ messages # <<>>
            /\ messages[1] = InitialMessage
            /\ \A k \in 2 .. Len(messages) :
                 messages[k].role = (IF k % 2 = 0 THEN USER ELSE MODEL))
    /\ [][/\ Len(messages') >= Len(messages)
          /\ SubSeq(messages', 1, Len(messages)) = messages]_vars

\* C7 (optimistic echo): while an accepted send has been issued and its remote
\* call has not resolved, the busy flag is true and the last Turn is a USER Turn
\* with the submitted text.
C7_OptimisticEcho ==
    \A i \in 1 .. Len(pending) :
        /\ isLoading
        /\ LastMessage.role = USER
        /\ LastMessage.content = pending[i]

\* C8 (busy flag release): given that every remote call settles, the busy flag
\* is eventually false after initialize and after every accepted send, on the
\* success path and on every failure path, and a session once READY stays READY,
\* so that the guard of a following send comes to let it through.
C8_BusyFlagRelease ==
    /\ isLoading ~> (~isLoading)
    /\ [][\A i \in 1 .. Len(pending), outcome \in Outcomes :
            sendMessageSettled(i, outcome) => ~isLoading']_vars
    /\ [][initializeChat => ~isLoading']_vars
    /\ [][chatSessionRef => chatSessionRef']_vars
    /\ (chatSessionRef /\ ~isLoading) ~> (~SendGuard)

C8_Witness ==
    /\ outbound = MaxSends
    /\ pending = <<>>
    /\ ~isLoading
    /\ chatSessionRef
    /\ LastMessage.id[1] = "error-"

\* C9: no ASSISTANT Turn in the Conversation has empty text.
C9_NoEmptyAssistantTurn ==
    \A k \in 1 .. Len(messages) :
        messages[k].role = MODEL => messages[k].content # <<>>

\* C10 (turn id uniqueness): all Turns in the Conversation have pairwise
\* distinct ids.
C10_UniqueIds ==
    \A j, k \in 1 .. Len(messages) :
        j # k => messages[j].id # messages[k].id

=============================================================================
